---- MODULE Spec2Model ----
(***************************************************************************)
(* Model of lichess_database_functions.py: the scheduler                   *)
(* process_lichess_monthly_databases, its two kinds of worker processes    *)
(* (generate_lichess_monthly_database_elo_csv and                          *)
(* generate_lichess_monthly_database_pgn_csv) seen through the files they  *)
(* read and write, the threshold derivation and the position extraction    *)
(* of the second worker, and combine_monthly_csvs.                         *)
(***************************************************************************)
EXTENDS Integers, Sequences, FiniteSets, TLC

\* ------------------------------------------------------------------------
\* Bounds of the model
\* ------------------------------------------------------------------------
\* number of monthly databases named by the checksum manifest
NumIds == 2

\* largest value of the threads_count argument that is explored
MaxThreads == 2

\* largest rating key of a rating histogram
MaxElo == 3

\* largest count of one histogram bucket
MaxCount == 2

\* largest multiplier used to build archive totals
MaxTotal == 4

\* largest number of game records of one archive
MaxGames == 2

\* largest number of plies of one game
MaxPlies == 2

\* largest rating written in a rating tag
MaxGameElo == 1

\* ------------------------------------------------------------------------
\* Program constants
\* ------------------------------------------------------------------------
PROCESSING_GAMES_INVERSE_SHARE == 2048

DEFAULT_COMBINE_POSITIONS_LIMIT == 2

INITIAL_POSITION_MOVELESS_FEN ==
    "rnbqkbnr/pppppppp/8/8/8/8/PPPPPPPP/RNBQKBNR w KQkq - 0"

\* database ids, in the order of checksums.keys()
Ids == 1..NumIds

\* ------------------------------------------------------------------------
\* State
\* ------------------------------------------------------------------------
VARIABLES
    threads_count,          \* argument of process_lichess_monthly_databases
    pc,                     \* position of the scheduler in its control loop
    pgn_bz2,                \* lichess/pgn_bz2: state of each archive file
    elo_csv_dir,            \* lichess/elo_csv: names of the files present
    pgn_csv,                \* lichess/pgn_csv: state of each position table
    pgn_log_dir,            \* lichess/pgn_log: ids whose log file is present
    pgn_log_availability,   \* scheduler's dict of the same name
    elo_csv_availability,   \* scheduler's dict of the same name
    pgn_bz2_availability,   \* scheduler's dict of the same name
    elo_csv_process_need,   \* scheduler's dict of the same name
    pgn_csv_process_need,   \* scheduler's dict of the same name
    elo_csv_process_dict,   \* pending rating-survey tasks, in insertion order
    pgn_csv_process_dict,   \* pending position-extraction tasks, in insertion order
    running_process_set,    \* set of <<kind, id>> process objects
    elo_proc,               \* position of each rating-survey process
    pgn_proc,               \* position of each position-extraction process
    created,                \* history: mp.Process objects built per <<kind, id>>
    started,                \* history: process.start() calls per <<kind, id>>
    unlinked,               \* history: ids whose archive the scheduler deleted
    start_pending,          \* history: ids the initial scan found verified, without log
    elo_counter,            \* rating histogram read from the rating summary
    games_total,            \* filenames_and_counts[filename]
    inverse_share,          \* the inverse-share factor in use
    min_elo,                \* derived threshold
    thr_pc,                 \* position in the threshold derivation
    archive,                \* game records of one archive, in file order
    positions_limit,        \* argument of the same name
    game_elos,              \* the two-slot list of the same name
    record_no,              \* number of game records read so far
    position_counts,        \* defaultdict of the same name: <<key, count>> in insertion order
    pgn_csv_file,           \* rows written to lichess/pgn_csv/{database_id}.csv
    pgn_log_file,           \* fields written to lichess/pgn_log/{database_id}
    ex_pc,                  \* position in the position extraction
    run_no,                 \* which run over the same archive this is
    prev_csv_file,          \* rows written by the run before
    prev_log_file,          \* fields written by the run before
    monthly_csv,            \* content of every lichess/pgn_csv/{database_id}.csv
    combine_limit,          \* positions_limit argument of combine_monthly_csvs
    combine_no,             \* number of ids the for loop of combine_monthly_csvs has taken
    read_ids,               \* history: ids whose table combine_monthly_csvs has read
    summed_counts,          \* position_counts of combine_monthly_csvs
    combined_csv,           \* rows written to lichess/pgn_csv/combined.csv
    combined_log,           \* fields written to lichess/pgn_log/combined
    cmb_pc                  \* position in combine_monthly_csvs

fsVars == <<pgn_bz2, elo_csv_dir, pgn_csv, pgn_log_dir>>
availVars == <<pgn_log_availability, elo_csv_availability, pgn_bz2_availability>>
needVars == <<elo_csv_process_need, pgn_csv_process_need>>
dictVars == <<elo_csv_process_dict, pgn_csv_process_dict>>
procVars == <<elo_proc, pgn_proc>>
histVars == <<created, started, unlinked, start_pending>>
schedVars == <<threads_count, pc, fsVars, availVars, needVars, dictVars,
               running_process_set, procVars, histVars>>
thrVars == <<elo_counter, games_total, inverse_share, min_elo, thr_pc>>
exVars == <<archive, positions_limit, game_elos, record_no, position_counts,
            pgn_csv_file, pgn_log_file, ex_pc, run_no, prev_csv_file,
            prev_log_file>>
cmbVars == <<monthly_csv, combine_limit, combine_no, read_ids, summed_counts, combined_csv,
             combined_log, cmb_pc>>
vars == <<schedVars, thrVars, exVars, cmbVars>>

\* ------------------------------------------------------------------------
\* File names
\* ------------------------------------------------------------------------
\* f'{database_id}_elo.csv': the name the rating-survey worker writes, the
\* position-extraction worker reads and the initial scan looks for
EloCsvName(d) == <<d, "_elo.csv">>

\* f'lichess/elo_csv/{database_id}': the name the re-scan looks for
RescanEloCsvName_Suffixed(d) == <<d, "_elo.csv">>

RescanEloCsvName(d) == <<d, "">>

\* ------------------------------------------------------------------------
\* Helpers
\* ------------------------------------------------------------------------
SeqToSet(s) == {s[i] : i \in 1..Len(s)}

Bump(c) == IF c < 2 THEN c + 1 ELSE c

IdSeq == [i \in 1..NumIds |-> i]

\* the position that follows s in the straight-line program prog
NextPos(prog, s) ==
    LET i == CHOOSE j \in 1..Len(prog) : prog[j] = s IN prog[i + 1]

\* ------------------------------------------------------------------------
\* Worker programs: the positions a worker process passes, in program order.
\*   started  process.start() was called
\*   reading  check_file_errors passed, the archive is open and being read
\*   closed   bz2_file.close() returned
\*   writing  to_csv opened the position table and is writing it
\*   written  to_csv returned
\*   logged   the completion log was opened for writing
\*   done     the function returned, the process has exited
\* ------------------------------------------------------------------------
EloProgram == <<"started", "reading", "closed", "written", "done">>

PgnProgram_LogDuringWrite ==
    <<"started", "reading", "closed", "writing", "logged", "written", "done">>

PgnProgram_LogFirst ==
    <<"started", "reading", "closed", "logged", "writing", "written", "done">>

PgnProgram ==
    <<"started", "reading", "closed", "writing", "written", "logged", "done">>

\* process.is_alive()
is_alive(p) ==
    IF p[1] = "elo" THEN elo_proc[p[2]] \in SeqToSet(EloProgram) \ {"done"}
                    ELSE pgn_proc[p[2]] \in SeqToSet(PgnProgram) \ {"done"}

\* ------------------------------------------------------------------------
\* Scheduler: construction (lines 417-460)
\*
\* The run starts from the files earlier runs left: any archive state, any
\* set of rating summaries, any set of completion logs.  A position table is
\* present exactly where its log is: no code of the scheduler or of a
\* worker reads a table, and a worker rewrites the table before its log.
\* ------------------------------------------------------------------------
\* sha256sum of the local file == checksums[filename] (lines 140, 493-495);
\* an absent file has no digest
Sha256Matches_ExistsOnly(file) == file # "absent"

Sha256Matches(file) == file = "good"

\* the task the initial for-loop builds for d, if any
InitialTask_NoArchiveTest(bz2, elo, log, d) ==
    IF ~elo[d] THEN "elo"
    ELSE IF ~log[d] THEN "pgn"
    ELSE "none"

InitialTask(bz2, elo, log, d) ==
    IF bz2[d] /\ ~elo[d] THEN "elo"
    ELSE IF bz2[d] /\ ~log[d] THEN "pgn"
    ELSE "none"

SchedInit ==
    /\ threads_count \in 0..MaxThreads
    /\ pc = "while"
    /\ pgn_bz2 \in [Ids -> {"absent", "bad", "good"}]
    /\ \E E \in SUBSET Ids : elo_csv_dir = {EloCsvName(d) : d \in E}
    /\ pgn_log_dir \in SUBSET Ids
    /\ pgn_csv = [d \in Ids |-> IF d \in pgn_log_dir THEN "full" ELSE "none"]
    /\ pgn_log_availability = [d \in Ids |-> d \in pgn_log_dir]
    /\ elo_csv_availability = [d \in Ids |-> EloCsvName(d) \in elo_csv_dir]
    /\ pgn_bz2_availability = [d \in Ids |-> Sha256Matches(pgn_bz2[d])]
    /\ LET task(d) == InitialTask(pgn_bz2_availability, elo_csv_availability,
                                   pgn_log_availability, d)
       IN  /\ elo_csv_process_need =
                 [d \in Ids |-> ~elo_csv_availability[d] /\ task(d) # "elo"]
           /\ pgn_csv_process_need =
                 [d \in Ids |-> ~pgn_log_availability[d] /\ task(d) # "pgn"]
           /\ elo_csv_process_dict = SelectSeq(IdSeq, LAMBDA d : task(d) = "elo")
           /\ pgn_csv_process_dict = SelectSeq(IdSeq, LAMBDA d : task(d) = "pgn")
           /\ elo_proc = [d \in Ids |-> IF task(d) = "elo" THEN "pending" ELSE "none"]
           /\ pgn_proc = [d \in Ids |-> IF task(d) = "pgn" THEN "pending" ELSE "none"]
           /\ created = [p \in {"elo", "pgn"} \X Ids |->
                            IF task(p[2]) = p[1] THEN 1 ELSE 0]
    /\ running_process_set = {}
    /\ started = [p \in {"elo", "pgn"} \X Ids |-> 0]
    /\ unlinked = {}
    /\ start_pending = {d \in Ids : pgn_bz2_availability[d] /\ ~pgn_log_availability[d]}

\* ------------------------------------------------------------------------
\* Scheduler: control loop (lines 462-535)
\* ------------------------------------------------------------------------
\* the condition of the outer while (line 462)
LoopCondition_PendingOnly ==
    elo_csv_process_dict # <<>> \/ pgn_csv_process_dict # <<>>

LoopCondition ==
    \/ elo_csv_process_dict # <<>>
    \/ pgn_csv_process_dict # <<>>
    \/ running_process_set # {}

\* len(running_process_set) < threads_count (lines 469, 479)
SlotFree_OffByOne == Cardinality(running_process_set) <= threads_count

SlotFree == Cardinality(running_process_set) < threads_count

\* the re-scan builds a task only if the need flag is still set (lines 508, 519)
NeedsTask_Always(need, d) == TRUE

NeedsTask_Inverted(need, d) == ~need[d]

NeedsTask(need, d) == need[d]

\* the condition under which the re-scan deletes the archive (line 530)
ReclaimGuard_NoLog(has_log, has_elo) == has_elo

ReclaimGuard_LogOnly(has_log, has_elo) == has_log

ReclaimGuard_Either(has_log, has_elo) == has_log \/ has_elo

ReclaimGuard(has_log, has_elo) == has_log /\ has_elo

\* line 462 is false: the loop is left
LoopExit ==
    /\ pc = "while"
    /\ ~LoopCondition
    /\ pc' = "exited"
    /\ UNCHANGED <<threads_count, fsVars, availVars, needVars, dictVars,
                   running_process_set, procVars, histVars, thrVars, exVars, cmbVars>>

\* lines 462-467: the loop is entered and the first process of the running
\* set that is found not alive, if there is one, is removed
Reap ==
    /\ pc = "while"
    /\ LoopCondition
    /\ LET dead == {p \in running_process_set : ~is_alive(p)}
       IN  IF dead = {}
           THEN UNCHANGED running_process_set
           ELSE \E p \in dead : running_process_set' = running_process_set \ {p}
    /\ pc' = "launch"
    /\ UNCHANGED <<threads_count, fsVars, availVars, needVars, dictVars,
                   procVars, histVars, thrVars, exVars, cmbVars>>

\* lines 469-477: one pass of the first inner while
StartElo ==
    /\ pc = "launch"
    /\ SlotFree /\ elo_csv_process_dict # <<>>
    /\ LET d == Head(elo_csv_process_dict)
       IN  /\ running_process_set' = running_process_set \cup {<<"elo", d>>}
           /\ elo_proc' = [elo_proc EXCEPT ![d] = "started"]
           /\ started' = [started EXCEPT ![<<"elo", d>>] = Bump(@)]
    /\ elo_csv_process_dict' = Tail(elo_csv_process_dict)
    /\ UNCHANGED <<threads_count, pc, fsVars, availVars, needVars,
                   pgn_csv_process_dict, pgn_proc, created, unlinked,
                   start_pending, thrVars, exVars, cmbVars>>

\* lines 478-487: one pass of the second inner while, entered once the
\* condition of the first is false
StartPgn ==
    /\ pc = "launch"
    /\ ~(SlotFree /\ elo_csv_process_dict # <<>>)
    /\ SlotFree /\ pgn_csv_process_dict # <<>>
    /\ LET d == Head(pgn_csv_process_dict)
       IN  /\ running_process_set' = running_process_set \cup {<<"pgn", d>>}
           /\ pgn_proc' = [pgn_proc EXCEPT ![d] = "started"]
           /\ started' = [started EXCEPT ![<<"pgn", d>>] = Bump(@)]
    /\ pgn_csv_process_dict' = Tail(pgn_csv_process_dict)
    /\ UNCHANGED <<threads_count, pc, fsVars, availVars, needVars,
                   elo_csv_process_dict, elo_proc, created, unlinked,
                   start_pending, thrVars, exVars, cmbVars>>

\* lines 488-535: the re-scan over all ids and the sleep.  The ids are
\* scanned in one step: the scan of an id reads and writes only what belongs
\* to that id.
Rescan ==
    /\ pc = "launch"
    /\ ~(SlotFree /\ elo_csv_process_dict # <<>>)
    /\ ~(SlotFree /\ pgn_csv_process_dict # <<>>)
    /\ LET bz2(d) == pgn_bz2_availability[d] \/ Sha256Matches(pgn_bz2[d])
           elo(d) == elo_csv_availability[d] \/ RescanEloCsvName(d) \in elo_csv_dir
           log(d) == pgn_log_availability[d] \/ d \in pgn_log_dir
           new_elo(d) == bz2(d) /\ ~elo(d) /\ NeedsTask(elo_csv_process_need, d)
           new_pgn(d) == /\ bz2(d) /\ elo(d) /\ ~log(d)
                         /\ NeedsTask(pgn_csv_process_need, d)
           reclaim(d) == bz2(d) /\ ReclaimGuard(log(d), elo(d))
       IN  /\ elo_csv_availability' = [d \in Ids |-> elo(d)]
           /\ pgn_log_availability' = [d \in Ids |-> log(d)]
           /\ pgn_bz2_availability' = [d \in Ids |-> bz2(d) /\ ~reclaim(d)]
           /\ elo_csv_process_need' =
                 [d \in Ids |-> elo_csv_process_need[d] /\ ~new_elo(d)]
           /\ pgn_csv_process_need' =
                 [d \in Ids |-> pgn_csv_process_need[d] /\ ~new_pgn(d)]
           /\ elo_csv_process_dict' =
                 elo_csv_process_dict \o SelectSeq(IdSeq,
                     LAMBDA d : new_elo(d) /\ d \notin SeqToSet(elo_csv_process_dict))
           /\ pgn_csv_process_dict' =
                 pgn_csv_process_dict \o SelectSeq(IdSeq,
                     LAMBDA d : new_pgn(d) /\ d \notin SeqToSet(pgn_csv_process_dict))
           /\ elo_proc' = [d \in Ids |-> IF new_elo(d) THEN "pending" ELSE elo_proc[d]]
           /\ pgn_proc' = [d \in Ids |-> IF new_pgn(d) THEN "pending" ELSE pgn_proc[d]]
           /\ created' = [p \in DOMAIN created |->
                 IF (p[1] = "elo" /\ new_elo(p[2])) \/ (p[1] = "pgn" /\ new_pgn(p[2]))
                 THEN Bump(created[p]) ELSE created[p]]
           /\ pgn_bz2' = [d \in Ids |-> IF reclaim(d) THEN "absent" ELSE pgn_bz2[d]]
           /\ unlinked' = unlinked \cup {d \in Ids : reclaim(d)}
    /\ pc' = "while"
    /\ UNCHANGED <<threads_count, elo_csv_dir, pgn_csv, pgn_log_dir,
                   running_process_set, started, start_pending, thrVars, exVars, cmbVars>>

\* ------------------------------------------------------------------------
\* Workers, as the scheduler and the file system see them
\* ------------------------------------------------------------------------
\* check_file_errors (lines 46-55): the archive exists with the manifest digest
FileOk(d) == pgn_bz2[d] = "good"

\* generate_lichess_monthly_database_elo_csv: one step of the process of d
EloStep(d) ==
    /\ elo_proc[d] \in SeqToSet(EloProgram) \ {"done"}
    /\ LET next == IF elo_proc[d] = "started" /\ ~FileOk(d)
                   THEN "crashed"
                   ELSE NextPos(EloProgram, elo_proc[d])
       IN  /\ elo_proc' = [elo_proc EXCEPT ![d] = next]
           /\ elo_csv_dir' = IF next = "written"
                             THEN elo_csv_dir \cup {EloCsvName(d)}
                             ELSE elo_csv_dir
    /\ UNCHANGED <<threads_count, pc, pgn_bz2, pgn_csv, pgn_log_dir, availVars,
                   needVars, dictVars, running_process_set, pgn_proc, histVars,
                   thrVars, exVars, cmbVars>>

\* generate_lichess_monthly_database_pgn_csv: one step of the process of d
PgnStep(d) ==
    /\ pgn_proc[d] \in SeqToSet(PgnProgram) \ {"done"}
    /\ LET next == IF /\ pgn_proc[d] = "started"
                      /\ ~(FileOk(d) /\ EloCsvName(d) \in elo_csv_dir)
                   THEN "crashed"
                   ELSE NextPos(PgnProgram, pgn_proc[d])
       IN  /\ pgn_proc' = [pgn_proc EXCEPT ![d] = next]
           /\ pgn_csv' = IF next = "writing" THEN [pgn_csv EXCEPT ![d] = "partial"]
                         ELSE IF next = "written" THEN [pgn_csv EXCEPT ![d] = "full"]
                         ELSE pgn_csv
           /\ pgn_log_dir' = IF next = "logged" THEN pgn_log_dir \cup {d}
                             ELSE pgn_log_dir
    /\ UNCHANGED <<threads_count, pc, pgn_bz2, elo_csv_dir, availVars, needVars,
                   dictVars, running_process_set, elo_proc, histVars, thrVars, exVars, cmbVars>>

\* a worker process stops at the point it has reached (killed, out of
\* memory, an exception)
Crash(p) ==
    /\ pc # "exited"
    /\ is_alive(p)
    /\ IF p[1] = "elo"
       THEN elo_proc' = [elo_proc EXCEPT ![p[2]] = "crashed"] /\ UNCHANGED pgn_proc
       ELSE pgn_proc' = [pgn_proc EXCEPT ![p[2]] = "crashed"] /\ UNCHANGED elo_proc
    /\ UNCHANGED <<threads_count, pc, fsVars, availVars, needVars, dictVars,
                   running_process_set, histVars, thrVars, exVars, cmbVars>>

\* ------------------------------------------------------------------------
\* Environment: archives are downloaded while the scheduler runs
\* ------------------------------------------------------------------------
\* a download of an archive not yet fetched begins: the file exists, its
\* digest is not yet the manifest's
DownloadBegin(d) ==
    /\ pc # "exited"
    /\ pgn_bz2[d] = "absent" /\ d \notin unlinked
    /\ pgn_bz2' = [pgn_bz2 EXCEPT ![d] = "bad"]
    /\ UNCHANGED <<threads_count, pc, elo_csv_dir, pgn_csv, pgn_log_dir, availVars,
                   needVars, dictVars, running_process_set, procVars, histVars,
                   thrVars, exVars, cmbVars>>

\* a download ends: the file has the manifest digest
DownloadEnd(d) ==
    /\ pc # "exited"
    /\ pgn_bz2[d] = "bad"
    /\ pgn_bz2' = [pgn_bz2 EXCEPT ![d] = "good"]
    /\ UNCHANGED <<threads_count, pc, elo_csv_dir, pgn_csv, pgn_log_dir, availVars,
                   needVars, dictVars, running_process_set, procVars, histVars,
                   thrVars, exVars, cmbVars>>

\* ------------------------------------------------------------------------
\* Threshold derivation (lines 330-342)
\* ------------------------------------------------------------------------
Max(S) == CHOOSE x \in S : \A y \in S : y <= x

Min(S) == CHOOSE x \in S : \A y \in S : x <= y

\* the keys taken in ascending order
RECURSIVE SortedReverse_Ascending(_)
SortedReverse_Ascending(S) ==
    IF S = {} THEN <<>> ELSE <<Min(S)>> \o SortedReverse_Ascending(S \ {Min(S)})

\* sorted(elo_counter, reverse=True)
RECURSIVE SortedReverse(_)
SortedReverse(S) ==
    IF S = {} THEN <<>> ELSE <<Max(S)>> \o SortedReverse(S \ {Max(S)})

\* the test of line 339
ShareReached_Strict(cumulative, share, total) == cumulative * share > total

ShareReached(cumulative, share, total) == cumulative * share >= total

\* the for loop of lines 336-342 over the remaining keys, with the running
\* value of cumulative_elo_counter
RECURSIVE ThresholdLoop(_, _, _, _, _)
ThresholdLoop(counter, keys, cumulative, share, total) ==
    IF keys = <<>> THEN 0
    ELSE LET elo == Head(keys)
             cumulative_elo_counter == cumulative + counter[elo]
         IN  IF ShareReached(cumulative_elo_counter, share, total)
             THEN elo
             ELSE ThresholdLoop(counter, Tail(keys), cumulative_elo_counter,
                                share, total)

DerivedMinElo(counter, share, total) ==
    ThresholdLoop(counter, SortedReverse(DOMAIN counter), 0, share, total)

\* the scheduler part of the state while only the derivation is looked at
SchedIdle ==
    /\ threads_count = 0
    /\ pc = "exited"
    /\ pgn_bz2 = [d \in Ids |-> "good"]
    /\ elo_csv_dir = {EloCsvName(d) : d \in Ids}
    /\ pgn_csv = [d \in Ids |-> "none"]
    /\ pgn_log_dir = {}
    /\ pgn_log_availability = [d \in Ids |-> FALSE]
    /\ elo_csv_availability = [d \in Ids |-> TRUE]
    /\ pgn_bz2_availability = [d \in Ids |-> TRUE]
    /\ elo_csv_process_need = [d \in Ids |-> FALSE]
    /\ pgn_csv_process_need = [d \in Ids |-> FALSE]
    /\ elo_csv_process_dict = <<>>
    /\ pgn_csv_process_dict = <<>>
    /\ running_process_set = {}
    /\ elo_proc = [d \in Ids |-> "none"]
    /\ pgn_proc = [d \in Ids |-> "none"]
    /\ created = [p \in {"elo", "pgn"} \X Ids |-> 0]
    /\ started = [p \in {"elo", "pgn"} \X Ids |-> 0]
    /\ unlinked = {}
    /\ start_pending = {}

\* the threshold part of the state while only the scheduler is looked at
ThresholdIdle ==
    /\ elo_counter = <<>>
    /\ games_total = 0
    /\ inverse_share = PROCESSING_GAMES_INVERSE_SHARE
    /\ min_elo = 0
    /\ thr_pc = "idle"

\* the sum of the counts of the keys in S
RECURSIVE SumOver(_, _)
SumOver(counter, S) ==
    IF S = {} THEN 0
    ELSE LET k == CHOOSE x \in S : TRUE
         IN  counter[k] + SumOver(counter, S \ {k})

\* a histogram of three ratings whose archive holds six games
ExampleHistogram == (2500 :> 1) @@ (2000 :> 2) @@ (1200 :> 3)

Histograms == {ExampleHistogram} \cup UNION {[S -> 0..MaxCount] : S \in SUBSET (0..MaxElo)}

Factors == {1, 2, PROCESSING_GAMES_INVERSE_SHARE}

Totals ==
    (0..MaxTotal) \cup {PROCESSING_GAMES_INVERSE_SHARE * k : k \in 1..MaxTotal}
        \cup {SumOver(ExampleHistogram, DOMAIN ExampleHistogram)}

\* lines 322-334: the histogram is read, min_elo starts at 0
ThresholdInit ==
    /\ elo_counter \in Histograms
    /\ games_total \in Totals
    /\ inverse_share \in Factors
    /\ min_elo = 0
    /\ thr_pc = "line332"

\* lines 332-342
DeriveThreshold ==
    /\ thr_pc = "line332"
    /\ min_elo' = DerivedMinElo(elo_counter, inverse_share, games_total)
    /\ thr_pc' = "line344"
    /\ UNCHANGED <<elo_counter, games_total, inverse_share, schedVars, exVars,
                   cmbVars>>

\* ------------------------------------------------------------------------
\* Position extraction (lines 344-404)
\* ------------------------------------------------------------------------
\* keys get_moveless_fen returns for boards other than the starting one
OtherPositions ==
    {"rnbqkbnr/pppppppp/8/8/4P3/8/PPPPPPPP/RNBQKBNR b KQkq - 0",
     "rnbqkbnr/pppppppp/8/8/8/5N2/PPPPPPPP/RNBQKBNR b KQkq - 1"}

Positions == {INITIAL_POSITION_MOVELESS_FEN} \cup OtherPositions

\* the digits of a rating tag line joined: empty, or one number
EloTags == {<<>>} \cup {<<e>> : e \in 1..MaxGameElo}

\* the keys of the boards after every ply of a move-text line; the empty
\* mainline stands for a line that holds no "1. "
Mainlines == UNION {[1..n -> Positions] : n \in 0..MaxPlies}

\* one game record of the archive: its two rating tag lines and its
\* move-text line
Records == [white : EloTags, black : EloTags, mainline : Mainlines]

\* update_game_elos over the tag lines of one record
update_game_elos(elos, rec) ==
    <<IF rec.white # <<>> THEN rec.white[1] ELSE elos[1],
      IF rec.black # <<>> THEN rec.black[1] ELSE elos[2]>>

\* the test of line 363
Qualifies(rec, elos, threshold) ==
    rec.mainline # <<>> /\ Min({elos[1], elos[2]}) >= threshold

\* the set built without the board before the first move
game_positions_MovesOnly(rec) == SeqToSet(rec.mainline)

\* lines 368-377: the set game_positions of one game
game_positions(rec) ==
    {INITIAL_POSITION_MOVELESS_FEN} \cup SeqToSet(rec.mainline)

\* the orders in which iterating a set can yield its elements
Orders(S) ==
    {f \in [1..Cardinality(S) -> S] : \A x \in S : \E i \in DOMAIN f : f[i] = x}

Keys(counts) == {counts[i][1] : i \in DOMAIN counts}

\* counts[key], 0 for a key that is not held
CountOf(counts, key) ==
    IF key \in Keys(counts)
    THEN LET i == CHOOSE j \in DOMAIN counts : counts[j][1] = key
         IN  counts[i][2]
    ELSE 0

\* position_counts[key] += 1 on a defaultdict(int)
Increment(counts, key) ==
    IF key \in Keys(counts)
    THEN [i \in DOMAIN counts |->
            IF counts[i][1] = key THEN <<key, counts[i][2] + 1>> ELSE counts[i]]
    ELSE Append(counts, <<key, 1>>)

\* the for loop of lines 379-380 over the set in one iteration order
RECURSIVE IncrementAll(_, _)
IncrementAll(counts, order) ==
    IF order = <<>> THEN counts
    ELSE IncrementAll(Increment(counts, Head(order)), Tail(order))

\* the test of line 386
KeepsRow_Strict(row, limit) == row[2] > limit

KeepsRow(row, limit) == row[2] >= limit

\* sort_values(by='count', ascending=False): rows of the largest count
\* first, rows of one count in the order they had
RECURSIVE sort_values(_)
sort_values(rows) ==
    IF rows = <<>> THEN <<>>
    ELSE LET top == Max({rows[i][2] : i \in DOMAIN rows})
         IN  SelectSeq(rows, LAMBDA r : r[2] = top)
                 \o sort_values(SelectSeq(rows, LAMBDA r : r[2] # top))

\* lines 385-398: the rows of the persisted table
position_counts_dataframe(counts, limit) ==
    sort_values(SelectSeq(counts, LAMBDA row : KeepsRow(row, limit)))

\* position_counts[INITIAL_POSITION_MOVELESS_FEN] on the defaultdict: a key
\* that is not held is inserted with 0
ReadInitial(counts) ==
    IF INITIAL_POSITION_MOVELESS_FEN \in Keys(counts) THEN counts
    ELSE Append(counts, <<INITIAL_POSITION_MOVELESS_FEN, 0>>)

\* the extraction part of the state while another part is looked at
ExtractIdle ==
    /\ archive = <<>>
    /\ positions_limit = 1
    /\ game_elos = <<0, 0>>
    /\ record_no = 0
    /\ position_counts = <<>>
    /\ pgn_csv_file = <<>>
    /\ pgn_log_file = <<>>
    /\ ex_pc = "idle"
    /\ run_no = 0
    /\ prev_csv_file = <<>>
    /\ prev_log_file = <<>>

\* the threshold the extraction works with (line 334 or 340)
ThresholdGiven ==
    /\ elo_counter = <<>>
    /\ games_total = 0
    /\ inverse_share = PROCESSING_GAMES_INVERSE_SHARE
    /\ min_elo \in 0..MaxGameElo
    /\ thr_pc = "line344"

\* lines 316-348: game_elos and position_counts as constructed, archive
\* opened
ExtractInit ==
    /\ archive \in UNION {[1..n -> Records] : n \in 0..MaxGames}
    /\ positions_limit \in 1..MaxGames
    /\ game_elos = <<0, 0>>
    /\ record_no = 0
    /\ position_counts = <<>>
    /\ pgn_csv_file = <<>>
    /\ pgn_log_file = <<>>
    /\ ex_pc = "reading"
    /\ run_no = 1
    /\ prev_csv_file = <<>>
    /\ prev_log_file = <<>>

\* lines 358-381 for the lines of one game record
ReadRecord ==
    /\ ex_pc = "reading"
    /\ record_no < Len(archive)
    /\ LET rec == archive[record_no + 1]
           elos == update_game_elos(game_elos, rec)
       IN  /\ game_elos' = elos
           /\ IF Qualifies(rec, elos, min_elo)
              THEN \E order \in Orders(game_positions(rec)) :
                      position_counts' = IncrementAll(position_counts, order)
              ELSE UNCHANGED position_counts
    /\ record_no' = record_no + 1
    /\ UNCHANGED <<archive, positions_limit, pgn_csv_file, pgn_log_file, ex_pc,
                   run_no, prev_csv_file, prev_log_file, schedVars, thrVars,
                   cmbVars>>

\* lines 356-357 and 383-398: end of the archive, the table is written
WriteTable ==
    /\ ex_pc = "reading"
    /\ record_no = Len(archive)
    /\ pgn_csv_file' = position_counts_dataframe(position_counts, positions_limit)
    /\ ex_pc' = "written"
    /\ UNCHANGED <<archive, positions_limit, game_elos, record_no,
                   position_counts, pgn_log_file, run_no, prev_csv_file,
                   prev_log_file, schedVars, thrVars, cmbVars>>

\* lines 400-404: the log is written
WriteLog ==
    /\ ex_pc = "written"
    /\ position_counts' = ReadInitial(position_counts)
    /\ pgn_log_file' =
          <<min_elo,
            CountOf(position_counts', INITIAL_POSITION_MOVELESS_FEN),
            Len(position_counts')>>
    /\ ex_pc' = "logged"
    /\ UNCHANGED <<archive, positions_limit, game_elos, record_no, pgn_csv_file,
                   run_no, prev_csv_file, prev_log_file, schedVars, thrVars,
                   cmbVars>>

\* the function is called once more for the same archive with the same
\* arguments; what the files held is kept for comparison
RunAgain ==
    /\ ex_pc = "logged"
    /\ run_no = 1
    /\ prev_csv_file' = pgn_csv_file
    /\ prev_log_file' = pgn_log_file
    /\ game_elos' = <<0, 0>>
    /\ record_no' = 0
    /\ position_counts' = <<>>
    /\ ex_pc' = "reading"
    /\ run_no' = 2
    /\ UNCHANGED <<archive, positions_limit, pgn_csv_file, pgn_log_file,
                   schedVars, thrVars, cmbVars>>

\* ------------------------------------------------------------------------
\* combine_monthly_csvs (lines 145-188)
\* ------------------------------------------------------------------------
\* the content a monthly table can have: rows of distinct keys in
\* non-increasing order of count (lines 385-398)
MonthlyTables ==
    {t \in UNION {[1..n -> Positions \X (1..MaxCount)] : n \in 0..Cardinality(Positions)} :
        /\ \A i, j \in DOMAIN t : i < j => (t[i][1] # t[j][1] /\ t[i][2] >= t[j][2])}

\* the test of line 156
has_pgn_log_Always(availability, d) == TRUE

has_pgn_log(availability, d) == availability[d]

\* position_counts[moveless_fen] += int(count)
AddCount(counts, key, n) ==
    IF key \in Keys(counts)
    THEN [i \in DOMAIN counts |->
            IF counts[i][1] = key THEN <<key, counts[i][2] + n>> ELSE counts[i]]
    ELSE Append(counts, <<key, n>>)

\* the for loop of lines 161-164 over the lines of one table
RECURSIVE AddRows(_, _)
AddRows(counts, rows) ==
    IF rows = <<>> THEN counts
    ELSE AddRows(AddCount(counts, Head(rows)[1], Head(rows)[2]), Tail(rows))

\* the combine part of the state while another part is looked at
CombineIdle ==
    /\ monthly_csv = [d \in Ids |-> <<>>]
    /\ combine_limit = DEFAULT_COMBINE_POSITIONS_LIMIT
    /\ combine_no = 0
    /\ read_ids = {}
    /\ summed_counts = <<>>
    /\ combined_csv = <<>>
    /\ combined_log = <<>>
    /\ cmb_pc = "idle"

\* the directories as combine_monthly_csvs finds them: no scheduler runs,
\* any set of logs is present (line 152)
CombineFiles ==
    /\ threads_count = 0
    /\ pc = "exited"
    /\ pgn_bz2 = [d \in Ids |-> "absent"]
    /\ elo_csv_dir = {}
    /\ pgn_log_dir \in SUBSET Ids
    /\ pgn_csv = [d \in Ids |-> IF d \in pgn_log_dir THEN "full" ELSE "none"]
    /\ pgn_log_availability = [d \in Ids |-> d \in pgn_log_dir]
    /\ elo_csv_availability = [d \in Ids |-> FALSE]
    /\ pgn_bz2_availability = [d \in Ids |-> FALSE]
    /\ elo_csv_process_need = [d \in Ids |-> FALSE]
    /\ pgn_csv_process_need = [d \in Ids |-> FALSE]
    /\ elo_csv_process_dict = <<>>
    /\ pgn_csv_process_dict = <<>>
    /\ running_process_set = {}
    /\ elo_proc = [d \in Ids |-> "none"]
    /\ pgn_proc = [d \in Ids |-> "none"]
    /\ created = [p \in {"elo", "pgn"} \X Ids |-> 0]
    /\ started = [p \in {"elo", "pgn"} \X Ids |-> 0]
    /\ unlinked = {}
    /\ start_pending = {}

\* lines 145-154: the argument, the tables on disk, an empty position_counts
CombineInit ==
    /\ monthly_csv \in [Ids -> MonthlyTables]
    /\ combine_limit \in 1..DEFAULT_COMBINE_POSITIONS_LIMIT
    /\ combine_no = 0
    /\ read_ids = {}
    /\ summed_counts = <<>>
    /\ combined_csv = <<>>
    /\ combined_log = <<>>
    /\ cmb_pc = "line155"

\* lines 155-164 for one database id
ScanId ==
    /\ cmb_pc = "line155"
    /\ combine_no < NumIds
    /\ LET database_id == IdSeq[combine_no + 1]
       IN  IF has_pgn_log(pgn_log_availability, database_id)
           THEN /\ summed_counts' = AddRows(summed_counts, monthly_csv[database_id])
                /\ read_ids' = read_ids \cup {database_id}
           ELSE UNCHANGED <<summed_counts, read_ids>>
    /\ combine_no' = combine_no + 1
    /\ UNCHANGED <<monthly_csv, combine_limit, combined_csv, combined_log, cmb_pc,
                   schedVars, thrVars, exVars>>

\* lines 166-180: the combined table is written
WriteCombined ==
    /\ cmb_pc = "line155"
    /\ combine_no = NumIds
    /\ combined_csv' = position_counts_dataframe(summed_counts, combine_limit)
    /\ cmb_pc' = "line182"
    /\ UNCHANGED <<monthly_csv, combine_limit, combine_no, read_ids, summed_counts,
                   combined_log, schedVars, thrVars, exVars>>

\* lines 182-188: the summary is written, GAMES_COUNT then POSITIONS_COUNT
WriteSummary ==
    /\ cmb_pc = "line182"
    /\ summed_counts' = ReadInitial(summed_counts)
    /\ combined_log' =
          <<CountOf(summed_counts', INITIAL_POSITION_MOVELESS_FEN),
            Len(combined_csv)>>
    /\ cmb_pc' = "returned"
    /\ UNCHANGED <<monthly_csv, combine_limit, combine_no, read_ids, combined_csv,
                   schedVars, thrVars, exVars>>

\* ------------------------------------------------------------------------
\* Specifications
\* ------------------------------------------------------------------------
Init == SchedInit /\ ThresholdIdle /\ ExtractIdle /\ CombineIdle

Scheduler == LoopExit \/ Reap \/ StartElo \/ StartPgn \/ Rescan

Next ==
    \/ Scheduler
    \/ \E d \in Ids : EloStep(d)
    \/ \E d \in Ids : PgnStep(d)
    \/ \E p \in running_process_set : Crash(p)
    \/ \E d \in Ids : DownloadBegin(d)
    \/ \E d \in Ids : DownloadEnd(d)

Spec == Init /\ [][Next]_vars

\* the scheduler always takes its next step, and every launched worker
\* takes its next step until it has exited
FairSpec ==
    /\ Spec
    /\ WF_vars(Scheduler)
    /\ \A d \in Ids : WF_vars(EloStep(d)) /\ WF_vars(PgnStep(d))

ThresholdSpecInit == SchedIdle /\ ThresholdInit /\ ExtractIdle /\ CombineIdle

ThresholdNext == DeriveThreshold

ThresholdSpec == ThresholdSpecInit /\ [][ThresholdNext]_vars

\* the position extraction alone, run twice over one archive
ExtractSpecInit == SchedIdle /\ ThresholdGiven /\ ExtractInit /\ CombineIdle

ExtractNext == ReadRecord \/ WriteTable \/ WriteLog \/ RunAgain

ExtractSpec == ExtractSpecInit /\ [][ExtractNext]_vars

\* combine_monthly_csvs alone
CombineSpecInit == CombineFiles /\ ThresholdIdle /\ ExtractIdle /\ CombineInit

CombineNext == ScanId \/ WriteCombined \/ WriteSummary

CombineSpec == CombineSpecInit /\ [][CombineNext]_vars

\* ------------------------------------------------------------------------
\* Properties
\* ------------------------------------------------------------------------
Pending == SeqToSet(elo_csv_process_dict) \cup SeqToSet(pgn_csv_process_dict)

\* the scheduler deletes the archive of d in this step
Unlinks(d) == pgn_bz2[d] # "absent" /\ pgn_bz2'[d] = "absent"

\* C1: the running set never holds more than threads_count tasks, rating
\* surveys and position extractions counted together.
C1_RunningBounded == Cardinality(running_process_set) <= threads_count

\* C1 witness: the launch loops face a full running set while a task is
\* still pending.
C1_Witness ==
    /\ pc = "launch"
    /\ threads_count >= 1
    /\ Cardinality(running_process_set) = threads_count
    /\ Pending # {}

\* C2: for every id at most one process object of each kind is ever built,
\* and each is started at most once, also after a worker exited without
\* producing its artifact.
C2_CreatedAndStartedOnce ==
    \A p \in DOMAIN created : created[p] <= 1 /\ started[p] <= 1

\* C2 witness: a rating survey crashed without writing its summary, was
\* removed from the running set, and a full re-scan has since looked at its
\* verified archive.
C2_Witness ==
    \E d \in Ids :
        /\ pc = "while"
        /\ elo_proc[d] = "crashed"
        /\ <<"elo", d>> \notin running_process_set
        /\ EloCsvName(d) \notin elo_csv_dir
        /\ pgn_bz2_availability[d]

\* C3: no id has its rating survey and its position extraction in the
\* running set at the same time.
C3_OneWorkerPerId ==
    \A d \in Ids :
        ~(<<"elo", d>> \in running_process_set /\ <<"pgn", d>> \in running_process_set)

\* C3 witness: the rating survey of d is still in the running set, has
\* written its summary, and a slot is free.
C3_Witness ==
    \E d \in Ids :
        /\ <<"elo", d>> \in running_process_set
        /\ EloCsvName(d) \in elo_csv_dir
        /\ pgn_bz2[d] = "good"
        /\ d \notin pgn_log_dir
        /\ Cardinality(running_process_set) < threads_count
        /\ pc = "launch"

\* C4: the archive of d is deleted only in a state where the completion log
\* of d exists and the position table of d is fully written.
C4_ReclaimAfterArtifacts ==
    [][\A d \in Ids : Unlinks(d) => (d \in pgn_log_dir /\ pgn_csv[d] = "full")]_vars

\* C4 witness: an archive was deleted whose completion log was written by a
\* position extraction of this run.
C4_Witness == \E d \in unlinked : created[<<"pgn", d>>] = 1 /\ pgn_bz2[d] = "absent"

\* C5: the archive of d is never deleted while a worker for d is pending,
\* or was started and has not yet closed the archive.
C5_NoReclaimUnderReader ==
    [][\A d \in Ids : Unlinks(d) =>
          /\ d \notin Pending
          /\ elo_proc[d] \notin {"pending", "started", "reading"}
          /\ pgn_proc[d] \notin {"pending", "started", "reading"}]_vars

\* C5 witness: the archive of d was deleted while the position extraction
\* of d is still alive in the running set, past its reading.
C5_Witness ==
    \E d \in unlinked :
        /\ <<"pgn", d>> \in running_process_set
        /\ pgn_proc[d] = "logged"
        /\ pgn_bz2[d] = "absent"

\* C6 as stated: a completion log exists if and only if the position table
\* was fully written.
C6_LogIffTable == \A d \in Ids : d \in pgn_log_dir <=> pgn_csv[d] = "full"

\* C6 as amended: a completion log exists only if the position table was
\* fully written.
C6_LogImpliesTable == \A d \in Ids : d \in pgn_log_dir => pgn_csv[d] = "full"

\* C6 witness: a position extraction of this run stopped after it had
\* created the completion log.
C6_Witness ==
    \E d \in Ids :
        /\ created[<<"pgn", d>>] = 1
        /\ pgn_proc[d] = "crashed"
        /\ d \in pgn_log_dir

\* C7: the completion log is created only by the step that follows the
\* completed table write, no file of the id is written after it, and a
\* worker that stops before that step leaves no completion log.
C7_LogLast ==
    [][\A d \in Ids :
          /\ (d \notin pgn_log_dir /\ d \in pgn_log_dir') =>
                (pgn_proc[d] = "written" /\ pgn_csv[d] = "full")
          /\ d \in pgn_log_dir => pgn_csv'[d] = pgn_csv[d]
          /\ (pgn_proc'[d] = "crashed" /\ d \notin pgn_log_dir) =>
                d \notin pgn_log_dir']_vars

\* C7 witness: a position extraction of this run has created the log as its
\* last write and is still alive.
C7_Witness ==
    \E d \in Ids :
        /\ created[<<"pgn", d>>] = 1
        /\ pgn_proc[d] = "logged"
        /\ d \in pgn_log_dir

NoWorkerCrashed == \A d \in Ids : elo_proc[d] # "crashed" /\ pgn_proc[d] # "crashed"

\* C8: with threads_count >= 1 and no worker crash, when the loop has exited
\* every id that started with a verified archive and no completion log has
\* its rating summary, has had its position extraction run, has its
\* completion log, and has had its archive deleted.
C8_ProcessedWithinRun ==
    (pc = "exited" /\ threads_count >= 1 /\ NoWorkerCrashed) =>
        \A d \in start_pending :
            /\ EloCsvName(d) \in elo_csv_dir
            /\ pgn_proc[d] = "done"
            /\ d \in pgn_log_dir
            /\ d \in unlinked

\* C9: the loop is left exactly when the check of its condition finds no
\* pending task and an empty running set, and with threads_count >= 1 it is
\* eventually left.
C9_LoopTerminates ==
    /\ [][(pc = "while" /\ pc' # "while") =>
            (pc' = "exited" <=> (Pending = {} /\ running_process_set = {}))]_vars
    /\ (threads_count >= 1) ~> (pc = "exited")

\* C9 witness: the loop was left after a worker had been started.
C9_Witness ==
    /\ pc = "exited"
    /\ threads_count >= 1
    /\ \E p \in DOMAIN started : started[p] = 1

\* the keys at which the count of all keys at or above them, times the
\* factor, reaches the total
QualifyingKeys(counter, share, total) ==
    {r \in DOMAIN counter :
        SumOver(counter, {k \in DOMAIN counter : k >= r}) * share >= total}

\* C10: the derived threshold is the first key, in descending order, at
\* which (sum of the counts of all keys >= it) * factor >= total, and 0 when
\* there is no such key.
C10_ThresholdIsFirstQualifying ==
    thr_pc = "line344" =>
        LET Q == QualifyingKeys(elo_counter, inverse_share, games_total)
        IN  min_elo = IF Q = {} THEN 0 ELSE Max(Q)

\* C10 witness: the threshold was found at a key below the largest one.
C10_Witness ==
    /\ thr_pc = "line344"
    /\ min_elo > 0
    /\ min_elo < Max(DOMAIN elo_counter)

\* C20 as stated: the threshold is the smallest key at which (sum of the
\* counts of all keys >= it) * factor >= total.
C20_ThresholdIsSmallestQualifying ==
    thr_pc = "line344" =>
        LET Q == QualifyingKeys(elo_counter, inverse_share, games_total)
        IN  Q # {} => min_elo = Min(Q)

\* C20 amended: the threshold is the largest key at which (sum of the counts
\* of all keys >= it) * factor >= total; for the histogram
\* {2500:1, 2000:2, 1200:3}, total 6 and factor 2 it is 2000.
C20_ThresholdIsLargestQualifying ==
    thr_pc = "line344" =>
        LET Q == QualifyingKeys(elo_counter, inverse_share, games_total)
        IN  /\ Q # {} => (min_elo \in Q /\ \A r \in Q : r <= min_elo)
            /\ (/\ elo_counter = ExampleHistogram
                /\ games_total = 6
                /\ inverse_share = 2) => min_elo = 2000

\* C20 witness: the threshold of the example histogram has been derived, and
\* a smaller key qualifies as well.
C20_Witness ==
    /\ thr_pc = "line344"
    /\ elo_counter = ExampleHistogram
    /\ games_total = 6
    /\ inverse_share = 2
    /\ min_elo = 2000
    /\ 1200 \in QualifyingKeys(elo_counter, inverse_share, games_total)

\* the slot of game_elos a tag line of record i writes: the number of the
\* last record up to i whose tag holds digits, 0 when there is none
LastTag(tags, i) ==
    LET J == {j \in 1..i : tags[j] # <<>>}
    IN  IF J = {} THEN 0 ELSE tags[Max(J)][1]

\* the min-rating recorded for the game of record i
RecordedMinElo(i) ==
    Min({LastTag([j \in DOMAIN archive |-> archive[j].white], i),
         LastTag([j \in DOMAIN archive |-> archive[j].black], i)})

\* the games among the first n records that qualify and whose position
\* sequence holds p
GamesHolding(p, n) ==
    {i \in 1..n :
        /\ archive[i].mainline # <<>>
        /\ RecordedMinElo(i) >= min_elo
        /\ \/ p = INITIAL_POSITION_MOVELESS_FEN
           \/ \E k \in DOMAIN archive[i].mainline : archive[i].mainline[k] = p}

\* C11: the accumulated count of every position key is the number of games
\* read so far with recorded min-rating >= threshold whose position sequence
\* (starting position, then the position after every ply) holds the key; in
\* particular after pass 2 it is that number over the whole archive, a
\* position recurring in one game counts once for it, and every qualifying
\* game counts once for the starting position.
C11_CountIsGamesHolding ==
    ex_pc \in {"reading", "written", "logged"} =>
        /\ \A p \in Positions :
              CountOf(position_counts, p) = Cardinality(GamesHolding(p, record_no))
        /\ Keys(position_counts) \subseteq Positions
        /\ Cardinality(Keys(position_counts)) = Len(position_counts)

\* C11 witness: pass 2 is over; a qualifying game reached one position
\* twice, which has count 1, and another game was left out for its rating.
C11_Witness ==
    /\ ex_pc = "written"
    /\ \E i, j \in DOMAIN archive :
          /\ Len(archive[i].mainline) = 2
          /\ archive[i].mainline[1] = archive[i].mainline[2]
          /\ RecordedMinElo(i) >= min_elo
          /\ CountOf(position_counts, archive[i].mainline[1]) = 1
          /\ archive[j].mainline # <<>>
          /\ RecordedMinElo(j) < min_elo
    /\ CountOf(position_counts, INITIAL_POSITION_MOVELESS_FEN) = 1

\* C12: the persisted table holds exactly the accumulated positions whose
\* count is >= positions_limit, one row each with that count, and its rows
\* are in non-increasing order of count.
C12_TableFilteredAndSorted ==
    ex_pc \in {"written", "logged"} =>
        /\ Keys(pgn_csv_file) =
              {p \in Positions : CountOf(position_counts, p) >= positions_limit}
        /\ Cardinality(Keys(pgn_csv_file)) = Len(pgn_csv_file)
        /\ \A i \in DOMAIN pgn_csv_file :
              pgn_csv_file[i][2] = CountOf(position_counts, pgn_csv_file[i][1])
        /\ \A i, j \in DOMAIN pgn_csv_file :
              i < j => pgn_csv_file[i][2] >= pgn_csv_file[j][2]

\* C12 witness: a table of rows with different counts was written, and the
\* row written first was not the one accumulated first.
C12_Witness ==
    /\ ex_pc = "written"
    /\ Len(pgn_csv_file) >= 2
    /\ pgn_csv_file[1][2] > pgn_csv_file[Len(pgn_csv_file)][2]
    /\ pgn_csv_file[1][1] # position_counts[1][1]

\* C13 as stated: the second run over the same archive with the same
\* arguments has written the same table, row by row, and the same log as
\* the first run.
C13_RunsAgree ==
    (run_no = 2 /\ ex_pc = "logged") =>
        /\ pgn_csv_file = prev_csv_file
        /\ pgn_log_file = prev_log_file

\* the two runs wrote the same log, and tables with the same set of rows
RunsAgreeUpToTies ==
    (run_no = 2 /\ ex_pc = "logged") =>
        /\ SeqToSet(pgn_csv_file) = SeqToSet(prev_csv_file)
        /\ Len(pgn_csv_file) = Len(prev_csv_file)
        /\ pgn_log_file = prev_log_file

\* the position keys incremented at least once during pass 2
IncrementedKeys ==
    {p \in Positions : GamesHolding(p, Len(archive)) # {}}

\* C21 as stated: in the completion log of every archive the third field
\* is the number of distinct position keys incremented at least once during
\* pass 2 and the second field is the accumulated count of the starting
\* position; with positions_limit 1 the third field is the number of rows
\* of the persisted table.
C21_LogFields ==
    ex_pc = "logged" =>
        /\ pgn_log_file[3] = Cardinality(IncrementedKeys)
        /\ pgn_log_file[2] =
              Cardinality(GamesHolding(INITIAL_POSITION_MOVELESS_FEN, Len(archive)))
        /\ positions_limit = 1 => pgn_log_file[3] = Len(pgn_csv_file)

\* what the log holds: the third field also counts the starting key read
\* for the second field when no game has incremented it
LogCountsReadKey ==
    ex_pc = "logged" =>
        /\ pgn_log_file[1] = min_elo
        /\ pgn_log_file[2] =
              Cardinality(GamesHolding(INITIAL_POSITION_MOVELESS_FEN, Len(archive)))
        /\ pgn_log_file[3] =
              IF IncrementedKeys = {} THEN 1 ELSE Cardinality(IncrementedKeys)

\* the sum of the counts of key p over the tables of the ids in S
RECURSIVE SummedOver(_, _)
SummedOver(p, S) ==
    IF S = {} THEN 0
    ELSE LET d == CHOOSE x \in S : TRUE
         IN  CountOf(monthly_csv[d], p) + SummedOver(p, S \ {d})

\* C14: combine_monthly_csvs has read the table of exactly the ids whose
\* log exists; the combined count of every key is the sum of its counts
\* over those tables; the combined table holds exactly the keys whose sum
\* is >= positions_limit, one row each, in non-increasing order of the sum;
\* the summary holds the summed count of the starting position and the
\* number of rows of the combined table.
C14_CombinedIsSumOverLogged ==
    cmb_pc = "returned" =>
        /\ read_ids = pgn_log_dir
        /\ \A p \in Positions :
              CountOf(summed_counts, p) = SummedOver(p, pgn_log_dir)
        /\ Keys(combined_csv) =
              {p \in Positions : SummedOver(p, pgn_log_dir) >= combine_limit}
        /\ Cardinality(Keys(combined_csv)) = Len(combined_csv)
        /\ \A i \in DOMAIN combined_csv :
              combined_csv[i][2] = SummedOver(combined_csv[i][1], pgn_log_dir)
        /\ \A i, j \in DOMAIN combined_csv :
              i < j => combined_csv[i][2] >= combined_csv[j][2]
        /\ combined_log =
              <<SummedOver(INITIAL_POSITION_MOVELESS_FEN, pgn_log_dir),
                Cardinality({p \in Positions :
                                SummedOver(p, pgn_log_dir) >= combine_limit})>>

\* C14 witness: the function has returned; two ids with logs share a key,
\* a key was dropped by the limit, and the summary counts games of two
\* tables.
C14_Witness ==
    /\ cmb_pc = "returned"
    /\ \E d, e \in pgn_log_dir, p \in Positions :
          /\ d # e
          /\ CountOf(monthly_csv[d], p) >= 1
          /\ CountOf(monthly_csv[e], p) >= 1
    /\ Len(combined_csv) < Len(summed_counts)
    /\ combined_log[1] >= 2

\* the scheduler performs its re-scan in this step
RescanStep == pc = "launch" /\ pc' = "while"

\* C15 as stated: a re-scan that finds a local archive whose digest differs
\* from the manifest's deletes that file.
C15_CorruptDeleted ==
    [][RescanStep => \A d \in Ids : pgn_bz2[d] = "bad" => pgn_bz2'[d] = "absent"]_vars

\* C15 as amended: a re-scan that finds a local archive whose digest differs
\* from the manifest's treats it as not present (not available, no task
\* built) and leaves the file in place.
C15_CorruptKeptNotPresent ==
    [][RescanStep => \A d \in Ids : pgn_bz2[d] = "bad" =>
          /\ pgn_bz2'[d] = "bad"
          /\ ~pgn_bz2_availability'[d]
          /\ d \notin SeqToSet(elo_csv_process_dict')
          /\ d \notin SeqToSet(pgn_csv_process_dict')]_vars

\* C15 witness: a worker of another id has been reaped, so a re-scan has
\* run, and a local archive with a wrong digest is still there.
C15_Witness ==
    \E d, e \in Ids :
        /\ pc = "exited"
        /\ started[<<"elo", e>>] = 1
        /\ pgn_bz2[d] = "bad"
        /\ ~pgn_bz2_availability[d]

\* C16 as stated: a re-scan deletes the archive of every id whose completion
\* log exists and whose verified archive is present.
C16_ReclaimOnLog ==
    [][RescanStep => \A d \in Ids :
          (d \in pgn_log_dir /\ pgn_bz2[d] = "good") => pgn_bz2'[d] = "absent"]_vars

\* C16 as amended: a re-scan deletes the archive of an id whose completion
\* log exists and whose verified archive is present exactly when the
\* scheduler holds the rating summary of the id as available.
C16_ReclaimOnLogAndSummary ==
    [][RescanStep => \A d \in Ids :
          (d \in pgn_log_dir /\ pgn_bz2[d] = "good") =>
              (pgn_bz2'[d] = "absent" <=> elo_csv_availability'[d])]_vars

\* C16 witness: the log of d exists, its verified archive is present, its
\* rating survey has run and was reaped, and the archive is still there.
C16_Witness ==
    \E d \in Ids :
        /\ pc = "while"
        /\ d \in pgn_log_dir
        /\ pgn_bz2[d] = "good"
        /\ elo_proc[d] = "done"
        /\ <<"elo", d>> \notin running_process_set
        /\ EloCsvName(d) \in elo_csv_dir

\* C17: after the first step of an iteration no process that has exited is
\* left in the running set.
C17_AllExitedRemoved ==
    [][(pc = "while" /\ pc' = "launch") =>
          \A p \in running_process_set' : is_alive(p)]_vars

\* C18: a re-scan that finds a verified archive it did not hold as available
\* marks it available and puts a task for it into a pending dict, unless log
\* and rating summary are both there (then it deletes the archive); with
\* threads_count >= 1 every pending task is eventually started.
C18_NewArchiveAdmitted ==
    /\ [][RescanStep => \A d \in Ids :
            (~pgn_bz2_availability[d] /\ pgn_bz2[d] = "good") =>
                IF d \in pgn_log_dir /\ elo_csv_availability'[d]
                THEN pgn_bz2'[d] = "absent"
                ELSE pgn_bz2_availability'[d] /\ d \in Pending']_vars
    /\ \A d \in Ids :
          /\ (threads_count >= 1 /\ d \in SeqToSet(elo_csv_process_dict))
                ~> (started[<<"elo", d>>] = 1)
          /\ (threads_count >= 1 /\ d \in SeqToSet(pgn_csv_process_dict))
                ~> (started[<<"pgn", d>>] = 1)

\* C18 witness: a task was started for an id that has no log and whose
\* archive the initial scan did not find verified.
C18_Witness ==
    \E d \in Ids :
        /\ d \notin start_pending
        /\ d \notin pgn_log_dir
        /\ (started[<<"elo", d>>] = 1 \/ started[<<"pgn", d>>] = 1)

\* C19: a process object exists for an id only if its archive was seen with
\* the manifest digest: the file is there verified, or was deleted by the
\* scheduler since.
C19_TaskOnlyForVerified ==
    \A p \in DOMAIN created :
        created[p] >= 1 => (pgn_bz2[p[2]] = "good" \/ p[2] \in unlinked)

\* C19 witness: after a re-scan one id has a task and another, whose archive
\* has a wrong digest, has none.
C19_Witness ==
    \E d, e \in Ids :
        /\ pc = "exited"
        /\ started[<<"pgn", e>>] = 1
        /\ pgn_bz2[d] = "bad"
        /\ created[<<"elo", d>>] = 0 /\ created[<<"pgn", d>>] = 0

====
